---------------------------- MODULE Spec2Model ----------------------------
(***************************************************************************)
(* A model of process_video and analyze_frame of the VetrexAIPipeline      *)
(* variants:                                                                *)
(*   "vision"  src/Ver1 - Cloud Vision API/VetrexAIPipeline.py              *)
(*             (sequential, numeric confidence)                             *)
(*   "gemini"  src/Ver1 - Gemini/VetrexAIPipeline.py                        *)
(*             (thread pool, string confidence)                             *)
(*   "batch"   src/limiter - video intelligence api/                        *)
(*             VetrexAIPipeline - Old.py (one call, interest filter)        *)
(*                                                                          *)
(* Python strings are sequences of code points, so that str.upper() and    *)
(* the comparison of two strings are computed as Python computes them.     *)
(* A Python dict is a sequence of entries in insertion order with unique   *)
(* keys.  A Cloud Vision score (a float in [0, 1]) is counted in           *)
(* hundredths.  The free-text descriptions of the Gemini variant, the      *)
(* log lines and the local file clean-up are left out: no step reads them. *)
(***************************************************************************)
EXTENDS Integers, Sequences, FiniteSets, TLC

(***************************************************************************)
(* Bounds of the model.                                                     *)
(***************************************************************************)
\* the largest number of frames process_video samples from one video
MaxFrames == 2
\* the largest number of frames of a video that fills the thread pool
PoolFrames == 5
\* the largest number of object annotations of one annotated video
MaxAnnotations == 2
\* the attempt count the retry policy of the specification would configure
MaxAttempts == 2

\* the invocation of process_video at which the model stops following the
\* retry wrapper (the wrapper itself counts nothing)
AttemptCap == MaxAttempts + 1

(***************************************************************************)
(* Program constants.                                                       *)
(***************************************************************************)
\* range(0, frame_count, 60)
VisionStride == 60
\* range(0, frame_count, 120)
GeminiStride == 120
\* ThreadPoolExecutor(max_workers=4)
max_workers == 4

Stride(v) == IF v = "vision" THEN VisionStride ELSE GeminiStride

(***************************************************************************)
(* Strings.                                                                 *)
(***************************************************************************)
s_low    == <<108, 111, 119>>                  \* "low"
s_medium == <<109, 101, 100, 105, 117, 109>>   \* "medium"
s_high   == <<104, 105, 103, 104>>             \* "high"
s_High   == <<72, 105, 103, 104>>              \* "High"
s_car    == <<99, 97, 114>>                    \* "car"
s_Car    == <<67, 97, 114>>                    \* "Car"
s_car_sp == <<99, 97, 114, 32>>                \* "car "
s_cat    == <<99, 97, 116>>                    \* "cat"
s_Cat    == <<67, 97, 116>>                    \* "Cat"
s_cat_sp == <<99, 97, 116, 32>>                \* "cat "
s_CAR    == <<67, 65, 82>>                     \* "CAR"
s_red_car == <<114, 101, 100, 32, 99, 97, 114>>            \* "red car"
s_RED_CARS == <<82, 69, 68, 32, 67, 65, 82, 83>>           \* "RED CARS"
s_bicycle == <<98, 105, 99, 121, 99, 108, 101>>            \* "bicycle"

\* str.upper() on the ASCII range
Upper(s) == [n \in 1..Len(s) |-> IF s[n] \in 97..122 THEN s[n] - 32 ELSE s[n]]

\* a > b on two Python strings: lexicographic on code points
StrGreater(a, b) ==
    \E k \in 1..Len(a) :
        /\ \A j \in 1..(k - 1) : j <= Len(b) /\ a[j] = b[j]
        /\ (k > Len(b) \/ a[k] > b[k])

\* needle in hay, on two Python strings
Contains(hay, needle) ==
    \E k \in 0..(Len(hay) - Len(needle)) :
        SubSeq(hay, k + 1, k + Len(needle)) = needle

(***************************************************************************)
(* Python dicts, kept in insertion order.                                   *)
(***************************************************************************)
HasKey(d, k) == \E n \in 1..Len(d) : d[n].object = k

Lookup(d, k) == d[CHOOSE n \in 1..Len(d) : d[n].object = k].confidence

\* d[k] = v
DictSet(d, k, v) ==
    IF HasKey(d, k)
    THEN [n \in 1..Len(d) |->
            IF d[n].object = k THEN [object |-> k, confidence |-> v] ELSE d[n]]
    ELSE Append(d, [object |-> k, confidence |-> v])

(***************************************************************************)
(* list.sort(key=..., reverse=True): a stable sort, descending by key.     *)
(* keys[n] is the key of items[n].                                          *)
(***************************************************************************)
SortPos(keys, n) ==
    1 + Cardinality({m \in 1..Len(keys) : keys[m] > keys[n]})
      + Cardinality({m \in 1..(n - 1) : keys[m] = keys[n]})

SortDescending(items, keys) ==
    [p \in 1..Len(items) |->
        items[CHOOSE n \in 1..Len(items) : SortPos(keys, n) = p]]

(***************************************************************************)
(* The retry wrapper: retry.if_exception_type(exceptions.PermissionDenied) *)
(***************************************************************************)
\* (a wrapper that retries on every exception)
RetryAnyException(exc) == exc = exc

RetryPredicate(exc) == exc = "PermissionDenied"

\* (a range that takes its stop value in)
InRangeInclusive(i, n) == i <= n

\* i in range(0, frame_count, step), for i a multiple of step
InRange(i, n) == i < n


(***************************************************************************)
(* What the collaborators can answer.                                       *)
(***************************************************************************)
\* the frame counts a video can report: none, and one to MaxFrames samples
FrameCounts(v) ==
    {0} \cup {(k - 1) * Stride(v) + 1 : k \in 1..MaxFrames}
        \cup {k * Stride(v) : k \in 1..MaxFrames}

\* blob.download_to_filename / json_blob.upload_from_string
StorageOutcomes == {"ok", "PermissionDenied", "NotFound"}

\* Cloud Vision: localized_object_annotations and label_annotations
VisionNames == {s_cat, s_Cat, s_cat_sp}
Scores == {60, 80, 90}
Annotations == [name : VisionNames, score : Scores]
AnnotationLists == {<<>>} \cup {<<a>> : a \in Annotations}
VisionOutcomes ==
    [kind : {"ok"}, objects : AnnotationLists, labels : AnnotationLists]
        \cup [kind : {"PermissionDenied", "error"},
              objects : {<<>>}, labels : {<<>>}]

\* Gemini: what the model's answer can hold after json.loads
GeminiObjects == {s_car, s_Car, s_car_sp}
GeminiConfidences == {s_low, s_medium, s_high, s_High}
Detections == [object : GeminiObjects, confidence : GeminiConfidences]
DetectionLists == {<<>>} \cup {<<d>> : d \in Detections}
\* "malformed": the answer is no JSON, json.loads raises JSONDecodeError
GeminiOutcomes ==
    [kind : {"ok"}, detected_objects : DetectionLists]
        \cup [kind : {"malformed", "PermissionDenied", "error"},
              detected_objects : {<<>>}]

\* a short repertoire, for the videos whose frames outnumber the pool
PoolOutcomes ==
    [kind : {"ok"},
     detected_objects : {<<[object |-> s_car, confidence |-> s_high]>>}]
        \cup [kind : {"PermissionDenied"}, detected_objects : {<<>>}]

(***************************************************************************)
(* analyze_frame, Cloud Vision variant.                                     *)
(***************************************************************************)
\* for x in annotations: all_detections[x.name.upper()] = x.score
RECURSIVE PutAll(_, _)
PutAll(d, annotations) ==
    IF annotations = <<>> THEN d
    ELSE PutAll(DictSet(d, Upper(Head(annotations).name),
                        Head(annotations).score),
                Tail(annotations))

\* `except Exception as e`: every exception of the backend call is caught
ExceptException(exc) == exc \in {"PermissionDenied", "error"}

\* one invocation of the body: what it returns, or the exception it raises
VisionAnalyzeFrame(out) ==
    IF out.kind = "ok"
    THEN [raised |-> "none",
          value |-> PutAll(PutAll(<<>>, out.objects), out.labels)]
    ELSE IF ExceptException(out.kind)
    THEN [raised |-> "none", value |-> <<>>]
    ELSE [raised |-> out.kind, value |-> <<>>]

(***************************************************************************)
(* The merge of process_video, Cloud Vision variant.                        *)
(***************************************************************************)
\* (the comparison turned round)
VisionReplacesLess(all, obj, conf) ==
    ~HasKey(all, obj) \/ conf < Lookup(all, obj)

\* obj not in all_detections or conf > all_detections[obj]
VisionReplaces(all, obj, conf) ==
    ~HasKey(all, obj) \/ conf > Lookup(all, obj)

\* for obj, conf in frame_detections.items(): ...
RECURSIVE VisionMerge(_, _)
VisionMerge(all, frame_detections) ==
    IF frame_detections = <<>> THEN all
    ELSE LET d == Head(frame_detections)
         IN  VisionMerge(IF VisionReplaces(all, d.object, d.confidence)
                         THEN DictSet(all, d.object, d.confidence)
                         ELSE all,
                         Tail(frame_detections))

\* detected_list.sort(key=lambda x: x['confidence'], reverse=True)
VisionSort(all) ==
    SortDescending(all, [n \in 1..Len(all) |-> all[n].confidence])

(***************************************************************************)
(* State.                                                                   *)
(***************************************************************************)
VARIABLES
    variant,            \* which pipeline runs: "vision" or "gemini"
    answers,            \* what a backend call can answer in this run
    video,              \* the frame count of the video in the source bucket
    pc,                 \* where the main thread is in the wrapped process_video
    attempts,           \* invocations of process_video by its retry wrapper
    failures,           \* the exceptions that ended the earlier invocations
    error,              \* the exception the caller of process_video gets
    frame_count,        \* int(cap.get(cv2.CAP_PROP_FRAME_COUNT))
    i,                  \* the loop variable of range(0, frame_count, step)
    cur,                \* the analyze_frame call in progress (vision)
    all_detections,     \* vision: the merged dict; gemini: the collected list
    seen,               \* every (label, confidence) of a consumed frame result
    calls,              \* backend calls made by this invocation
    futures,            \* gemini: the futures submitted to the executor
    collected,          \* gemini: the futures as_completed has yielded
    unique_detections,  \* gemini: the merged dict
    detected_list,      \* the sorted list (final_detections in gemini)
    sink,               \* the records uploaded to the destination bucket
    interests,          \* batch: OBJECTS_OF_INTEREST of Tags_config
    annotations,        \* batch: result.annotation_results[0]
    detected_objects    \* batch: the merged dict of analyze_video

vars == <<variant, answers, video, pc, attempts, failures, error, frame_count, i, cur,
          all_detections, seen, calls, futures, collected, unique_detections,
          detected_list, sink, interests, annotations, detected_objects>>

\* the state of the batch variant
batch == <<interests, annotations, detected_objects>>

NoAnnotations == [objects |-> <<>>, labels |-> <<>>]

\* the batch variant does not run
BatchIdle ==
    /\ interests = {}
    /\ annotations = NoAnnotations
    /\ detected_objects = <<>>

\* the locals of process_video
locals == <<frame_count, i, cur, all_detections, seen, calls, futures,
            collected, unique_detections, detected_list>>

NoCall == [frame |-> -1, calls |-> 0, denied |-> 0, kind |-> "none"]

LocalsInit ==
    /\ frame_count = 0
    /\ i = 0
    /\ cur = NoCall
    /\ all_detections = <<>>
    /\ seen = {}
    /\ calls = 0
    /\ futures = <<>>
    /\ collected = {}
    /\ unique_detections = <<>>
    /\ detected_list = <<>>

Init ==
    /\ variant \in {"vision", "gemini"}
    /\ answers = IF variant = "vision" THEN VisionOutcomes ELSE GeminiOutcomes
    /\ video \in FrameCounts(variant)
    /\ pc = "download"
    /\ attempts = 1
    /\ failures = <<>>
    /\ error = "none"
    /\ sink = <<>>
    /\ LocalsInit
    /\ BatchIdle

(***************************************************************************)
(* The body of process_video raises exc: `except Exception: ... raise`     *)
(* hands it to the retry wrapper, which calls process_video again when its *)
(* predicate accepts exc and hands it to the caller otherwise.             *)
(***************************************************************************)
Raise(exc) ==
    IF RetryPredicate(exc)
    THEN /\ pc' = "backoff"
         /\ failures' = Append(failures, exc)
         /\ error' = error
    ELSE /\ pc' = "raised"
         /\ failures' = failures
         /\ error' = exc

\* the wrapper sleeps and calls process_video again: every local starts anew
Retry ==
    /\ pc = "backoff"
    /\ attempts < AttemptCap
    /\ pc' = "download"
    /\ attempts' = attempts + 1
    /\ frame_count' = 0
    /\ i' = 0
    /\ cur' = NoCall
    /\ all_detections' = <<>>
    /\ seen' = {}
    /\ calls' = 0
    /\ futures' = <<>>
    /\ collected' = {}
    /\ unique_detections' = <<>>
    /\ detected_list' = <<>>
    /\ UNCHANGED batch
    /\ UNCHANGED <<variant, answers, video, failures, error, sink>>

\* the wrapper's deadline has passed: it raises RetryError to the caller
RetryDeadline ==
    /\ pc = "backoff"
    /\ pc' = "raised"
    /\ error' = "RetryError"
    /\ UNCHANGED batch
    /\ UNCHANGED <<variant, answers, video, attempts, failures, sink, locals>>

\* blob.download_to_filename(local_video_path)
Download ==
    /\ pc = "download"
    /\ \E out \in StorageOutcomes :
          IF out = "ok"
          THEN /\ pc' = "open"
               /\ UNCHANGED <<failures, error>>
          ELSE Raise(out)
    /\ UNCHANGED batch
    /\ UNCHANGED <<variant, answers, video, attempts, sink, locals>>

\* cap = cv2.VideoCapture(...); cap.isOpened(); frame_count = ...
Open ==
    /\ pc = "open"
    /\ \E opened \in BOOLEAN :
          IF opened
          THEN /\ pc' = "frames"
               /\ frame_count' = video
               /\ UNCHANGED <<failures, error>>
          ELSE /\ Raise("Exception")
               /\ UNCHANGED frame_count
    /\ UNCHANGED batch
    /\ UNCHANGED <<variant, answers, video, attempts, sink, i, cur, all_detections,
                   seen, calls, futures, collected, unique_detections,
                   detected_list>>

(***************************************************************************)
(* process_video, Cloud Vision variant: the sampling loop.                  *)
(***************************************************************************)
\* cap.set(cv2.CAP_PROP_POS_FRAMES, i); ret, frame = cap.read()
VisionRead ==
    /\ variant = "vision"
    /\ pc = "frames"
    /\ InRange(i, frame_count)
    /\ \E ret \in BOOLEAN :
          IF ret
          THEN /\ pc' = "analyze"
               /\ cur' = [frame |-> i, calls |-> 0, denied |-> 0, kind |-> "none"]
               /\ i' = i
          ELSE /\ pc' = pc
               /\ cur' = cur
               /\ i' = i + VisionStride
    /\ UNCHANGED batch
    /\ UNCHANGED <<variant, answers, video, attempts, failures, error, frame_count,
                   all_detections, seen, calls, futures, collected,
                   unique_detections, detected_list, sink>>

\* frame_detections = analyze_frame(frame, i), under its retry wrapper, and
\* the merge of frame_detections into all_detections
VisionAnalyze ==
    /\ variant = "vision"
    /\ pc = "analyze"
    /\ \E out \in answers :
          LET res == VisionAnalyzeFrame(out)
              now == [cur EXCEPT !.calls = @ + 1,
                                 !.kind = out.kind,
                                 !.denied = IF out.kind = "PermissionDenied"
                                            THEN @ + 1 ELSE @]
          IN  /\ cur' = now
              /\ calls' = calls + 1
              /\ IF res.raised # "none"
                 THEN /\ IF RetryPredicate(res.raised)
                            /\ now.calls < AttemptCap
                         THEN UNCHANGED <<pc, failures, error>>
                         ELSE Raise(IF RetryPredicate(res.raised)
                                    THEN "RetryError" ELSE res.raised)
                      /\ UNCHANGED <<all_detections, seen, i>>
                 ELSE /\ all_detections' =
                             VisionMerge(all_detections, res.value)
                      /\ seen' = seen \cup
                             {<<res.value[n].object, res.value[n].confidence>> :
                                 n \in 1..Len(res.value)}
                      /\ i' = i + VisionStride
                      /\ pc' = "frames"
                      /\ UNCHANGED <<failures, error>>
    /\ UNCHANGED batch
    /\ UNCHANGED <<variant, answers, video, attempts, frame_count, futures, collected,
                   unique_detections, detected_list, sink>>

\* the loop is over: cap.release(), the list of the dict's items, its sort
VisionFinish ==
    /\ variant = "vision"
    /\ pc = "frames"
    /\ ~InRange(i, frame_count)
    /\ detected_list' = VisionSort(all_detections)
    /\ pc' = "upload"
    /\ UNCHANGED batch
    /\ UNCHANGED <<variant, answers, video, attempts, failures, error, frame_count, i,
                   cur, all_detections, seen, calls, futures, collected,
                   unique_detections, sink>>

\* json_blob.upload_from_string(json.dumps(output, indent=2), ...)
Upload ==
    /\ pc = "upload"
    /\ \E out \in StorageOutcomes :
          IF out = "ok"
          THEN /\ sink' = Append(sink, [detections |-> detected_list])
               /\ pc' = "returned"
               /\ UNCHANGED <<failures, error>>
          ELSE /\ Raise(out)
               /\ UNCHANGED sink
    /\ UNCHANGED batch
    /\ UNCHANGED <<variant, answers, video, attempts, locals>>

(***************************************************************************)
(* analyze_frame, Gemini variant.                                           *)
(***************************************************************************)
\* one invocation of the body: what it returns, or the exception it raises
GeminiAnalyzeFrame(out) ==
    IF out.kind = "ok"
    THEN [raised |-> "none", value |-> out.detected_objects]
    ELSE IF out.kind = "malformed"
    THEN [raised |-> "none", value |-> <<>>]
    ELSE IF ExceptException(out.kind)
    THEN [raised |-> "none", value |-> <<>>]
    ELSE [raised |-> out.kind, value |-> <<>>]

(***************************************************************************)
(* The merge and the sort of process_video, Gemini variant.                 *)
(***************************************************************************)
\* (the last detection of a label wins)
GeminiReplacesLast(unique, obj, conf) ==
    ~HasKey(unique, obj) \/ conf # Lookup(unique, obj)

\* obj not in unique_detections or conf > unique_detections[obj]['confidence']
GeminiReplaces(unique, obj, conf) ==
    ~HasKey(unique, obj) \/ StrGreater(conf, Lookup(unique, obj))

\* for detection in all_detections: ...
RECURSIVE GeminiMerge(_, _)
GeminiMerge(unique, detections) ==
    IF detections = <<>> THEN unique
    ELSE LET d == Head(detections)
         IN  GeminiMerge(IF GeminiReplaces(unique, d.object, d.confidence)
                         THEN DictSet(unique, d.object, d.confidence)
                         ELSE unique,
                         Tail(detections))

\* ['low', 'medium', 'high']
RankList == <<s_low, s_medium, s_high>>

InRankList(conf) == \E n \in 1..Len(RankList) : RankList[n] = conf

\* ['low', 'medium', 'high'].index(conf), counted from 0
RankIndex(conf) == (CHOOSE n \in 1..Len(RankList) : RankList[n] = conf) - 1

\* .index raises ValueError for a confidence that is not in the list
SortRaises(unique) == \E n \in 1..Len(unique) : ~InRankList(unique[n].confidence)

\* final_detections.sort(key=lambda x: [...].index(x['confidence']), reverse=True)
GeminiSort(unique) ==
    SortDescending(unique,
                   [n \in 1..Len(unique) |-> RankIndex(unique[n].confidence)])

(***************************************************************************)
(* process_video, Gemini variant: the pool, the collection, the merge.     *)
(***************************************************************************)
Running == {f \in 1..Len(futures) : futures[f].state = "running"}
Pending == {f \in 1..Len(futures) : futures[f].state = "pending"}

\* (a collection that stops at the first future yielded)
FirstCollected == futures = <<>> \/ collected # {}

\* as_completed(futures) has yielded every future
AllCollected == \A f \in 1..Len(futures) : f \in collected

\* futures.append(executor.submit(analyze_frame, frame, i))
Submit ==
    /\ variant = "gemini"
    /\ pc = "frames"
    /\ InRange(i, frame_count)
    /\ \E ret \in BOOLEAN :
          futures' = IF ret
                     THEN Append(futures,
                                 [frame |-> i, state |-> "pending", calls |-> 0,
                                  denied |-> 0, kind |-> "none",
                                  raised |-> "none",
                                  result |-> <<>>])
                     ELSE futures
    /\ i' = i + GeminiStride
    /\ UNCHANGED batch
    /\ UNCHANGED <<variant, answers, video, pc, attempts, failures, error, frame_count,
                   cur, all_detections, seen, calls, collected,
                   unique_detections, detected_list, sink>>

\* the submitting loop is over: the main thread goes on to as_completed
SubmitDone ==
    /\ variant = "gemini"
    /\ pc = "frames"
    /\ ~InRange(i, frame_count)
    /\ pc' = "collect"
    /\ UNCHANGED batch
    /\ UNCHANGED <<variant, answers, video, attempts, failures, error, sink, locals>>

\* a worker thread of the pool takes the oldest queued work item
WorkerStart ==
    /\ Pending # {}
    /\ Cardinality(Running) < max_workers
    /\ LET f == CHOOSE g \in Pending : \A h \in Pending : g <= h
       IN  futures' = [futures EXCEPT ![f].state = "running"]
    /\ UNCHANGED batch
    /\ UNCHANGED <<variant, answers, video, pc, attempts, failures, error, frame_count,
                   i, cur, all_detections, seen, calls, collected,
                   unique_detections, detected_list, sink>>

\* the worker's call of analyze_frame, under its retry wrapper, ends
WorkerFinish ==
    /\ \E f \in Running : \E out \in answers :
          LET res == GeminiAnalyzeFrame(out)
              now == [futures[f] EXCEPT
                          !.calls = @ + 1,
                          !.kind = out.kind,
                          !.denied = IF out.kind = "PermissionDenied"
                                     THEN @ + 1 ELSE @]
          IN  futures' =
                 [futures EXCEPT ![f] =
                     IF res.raised # "none" /\ RetryPredicate(res.raised)
                        /\ now.calls < AttemptCap
                     THEN now
                     ELSE [now EXCEPT
                              !.state = "done",
                              !.raised = IF res.raised # "none"
                                            /\ RetryPredicate(res.raised)
                                         THEN "RetryError" ELSE res.raised,
                              !.result = res.value]]
    /\ calls' = calls + 1
    /\ UNCHANGED batch
    /\ UNCHANGED <<variant, answers, video, pc, attempts, failures, error, frame_count,
                   i, cur, all_detections, seen, collected, unique_detections,
                   detected_list, sink>>

\* for future in as_completed(futures): future.result(); extend
\* (an exception of future.result() leaves the `with` block, which waits
\* for the pool to shut down)
Collect ==
    /\ variant = "gemini"
    /\ pc = "collect"
    /\ \E f \in 1..Len(futures) :
          /\ f \notin collected
          /\ futures[f].state = "done"
          /\ IF futures[f].raised # "none"
             THEN /\ \A g \in 1..Len(futures) : futures[g].state = "done"
                  /\ Raise(futures[f].raised)
                  /\ UNCHANGED <<all_detections, collected, seen>>
             ELSE /\ all_detections' = all_detections \o futures[f].result
                  /\ collected' = collected \cup {f}
                  /\ seen' = seen \cup
                        {<<futures[f].result[n].object,
                           futures[f].result[n].confidence>> :
                              n \in 1..Len(futures[f].result)}
                  /\ UNCHANGED <<pc, failures, error>>
    /\ UNCHANGED batch
    /\ UNCHANGED <<variant, answers, video, attempts, frame_count, i, cur, calls,
                   futures, unique_detections, detected_list, sink>>

\* as_completed is exhausted, the `with` block ends, cap.release()
CollectDone ==
    /\ variant = "gemini"
    /\ pc = "collect"
    /\ AllCollected
    /\ pc' = "merge"
    /\ UNCHANGED batch
    /\ UNCHANGED <<variant, answers, video, attempts, failures, error, sink, locals>>

\* the loop that fills unique_detections
Merge ==
    /\ variant = "gemini"
    /\ pc = "merge"
    /\ unique_detections' = GeminiMerge(<<>>, all_detections)
    /\ pc' = "sort"
    /\ UNCHANGED batch
    /\ UNCHANGED <<variant, answers, video, attempts, failures, error, frame_count, i,
                   cur, all_detections, seen, calls, futures, collected,
                   detected_list, sink>>

\* final_detections = list(unique_detections.values()); final_detections.sort
Sort ==
    /\ variant = "gemini"
    /\ pc = "sort"
    /\ IF SortRaises(unique_detections)
       THEN /\ Raise("ValueError")
            /\ UNCHANGED detected_list
       ELSE /\ detected_list' = GeminiSort(unique_detections)
            /\ pc' = "upload"
            /\ UNCHANGED <<failures, error>>
    /\ UNCHANGED batch
    /\ UNCHANGED <<variant, answers, video, attempts, frame_count, i, cur,
                   all_detections, seen, calls, futures, collected,
                   unique_detections, sink>>

Next ==
    \/ Download
    \/ Open
    \/ VisionRead
    \/ VisionAnalyze
    \/ VisionFinish
    \/ Submit
    \/ SubmitDone
    \/ WorkerStart
    \/ WorkerFinish
    \/ Collect
    \/ CollectDone
    \/ Merge
    \/ Sort
    \/ Upload
    \/ Retry
    \/ RetryDeadline

Spec == Init /\ [][Next]_vars

(***************************************************************************)
(* The Gemini variant alone, on videos with more sampled frames than the   *)
(* pool has workers.                                                        *)
(***************************************************************************)
InitPool ==
    /\ variant = "gemini"
    /\ answers = PoolOutcomes
    /\ video \in {(k - 1) * GeminiStride + 1 : k \in (max_workers + 1)..PoolFrames}
    /\ pc = "download"
    /\ attempts = 1
    /\ failures = <<>>
    /\ error = "none"
    /\ sink = <<>>
    /\ LocalsInit
    /\ BatchIdle

NextPool ==
    \/ Download
    \/ Open
    \/ Submit
    \/ SubmitDone
    \/ WorkerStart
    \/ WorkerFinish
    \/ Collect
    \/ CollectDone
    \/ Merge
    \/ Sort
    \/ Upload
    \/ Retry
    \/ RetryDeadline

SpecPool == InitPool /\ [][NextPool]_vars


(***************************************************************************)
(* The batch variant with the interest filter,                              *)
(* src/limiter - video intelligence api/VetrexAIPipeline - Old.py:          *)
(* process_video calls analyze_video once for the whole video, under no    *)
(* retry wrapper.                                                           *)
(***************************************************************************)
\* entity.description of an annotation, and its confidence
BatchNames == {s_car, s_red_car, s_bicycle}
BatchScores == {60, 80}
BatchAnnotations == [name : BatchNames, score : BatchScores]
ObjectAnnotationLists ==
    UNION {[1..n -> BatchAnnotations] : n \in 0..MaxAnnotations}
LabelAnnotationLists == {<<>>} \cup {<<a>> : a \in BatchAnnotations}

\* the values OBJECTS_OF_INTEREST can have
InterestSets == {{s_CAR}, {s_car}, {s_RED_CARS}}

\* matches_interest(detected_object, interests)
MatchesInterest(detected_object, ints) ==
    LET d == Upper(detected_object)
    IN  \E interest \in ints : Contains(d, interest) \/ Contains(interest, d)

\* object_name not in detected_objects or confidence > detected_objects[...]
BatchReplaces(detected, name, confidence) ==
    ~HasKey(detected, name) \/ confidence > Lookup(detected, name)

\* one loop of analyze_video over annotation entries
RECURSIVE BatchMerge(_, _, _)
BatchMerge(detected, entries, ints) ==
    IF entries = <<>> THEN detected
    ELSE LET name == Upper(Head(entries).name)
             confidence == Head(entries).score
         IN  BatchMerge(IF MatchesInterest(name, ints)
                           /\ BatchReplaces(detected, name, confidence)
                        THEN DictSet(detected, name, confidence)
                        ELSE detected,
                        Tail(entries), ints)

\* detected_list.sort(key=lambda x: x['confidence'], reverse=True)
BatchSort(detected) ==
    SortDescending(detected,
                   [n \in 1..Len(detected) |-> detected[n].confidence])

\* what the batch variant leaves alone
pipeline == <<variant, answers, video, attempts, failures, frame_count, i,
              cur, all_detections, seen, calls, futures, collected,
              unique_detections>>

\* operation = video_client.annotate_video(...); operation.result(timeout=300)
Annotate ==
    /\ variant = "batch"
    /\ pc = "annotate"
    /\ \E out \in {"ok", "error"} :
          IF out = "ok"
          THEN /\ \E objs \in ObjectAnnotationLists :
                  \E labs \in LabelAnnotationLists :
                     annotations' = [objects |-> objs, labels |-> labs]
               /\ pc' = "track"
               /\ error' = error
          ELSE /\ annotations' = annotations
               /\ pc' = "raised"
               /\ error' = out
    /\ UNCHANGED <<pipeline, interests, detected_objects, detected_list, sink>>

\* for annotation in result.annotation_results[0].object_annotations: ...
TrackObjects ==
    /\ variant = "batch"
    /\ pc = "track"
    /\ detected_objects' =
          BatchMerge(detected_objects, annotations.objects, interests)
    /\ pc' = "labels"
    /\ UNCHANGED <<pipeline, interests, annotations, error, detected_list, sink>>

\* for label in result.annotation_results[0].segment_label_annotations: ...
SegmentLabels ==
    /\ variant = "batch"
    /\ pc = "labels"
    /\ detected_objects' =
          BatchMerge(detected_objects, annotations.labels, interests)
    /\ pc' = "sortlist"
    /\ UNCHANGED <<pipeline, interests, annotations, error, detected_list, sink>>

\* detected_list = [...]; detected_list.sort(...); return detected_list
SortBatch ==
    /\ variant = "batch"
    /\ pc = "sortlist"
    /\ detected_list' = BatchSort(detected_objects)
    /\ pc' = "upload_batch"
    /\ UNCHANGED <<pipeline, batch, error, sink>>

\* json_blob.upload_from_string(...): an exception goes to the caller
UploadBatch ==
    /\ variant = "batch"
    /\ pc = "upload_batch"
    /\ \E out \in StorageOutcomes :
          IF out = "ok"
          THEN /\ sink' = Append(sink, [detections |-> detected_list])
               /\ pc' = "returned"
               /\ error' = error
          ELSE /\ sink' = sink
               /\ pc' = "raised"
               /\ error' = out
    /\ UNCHANGED <<pipeline, batch, detected_list>>

InitBatch ==
    /\ variant = "batch"
    /\ answers = {}
    /\ video = 0
    /\ pc = "annotate"
    /\ attempts = 1
    /\ failures = <<>>
    /\ error = "none"
    /\ sink = <<>>
    /\ LocalsInit
    /\ interests \in InterestSets
    /\ annotations = NoAnnotations
    /\ detected_objects = <<>>

NextBatch ==
    \/ Annotate
    \/ TrackObjects
    \/ SegmentLabels
    \/ SortBatch
    \/ UploadBatch

SpecBatch == InitBatch /\ [][NextBatch]_vars

(***************************************************************************)
(* What the statements below are written with.                              *)
(***************************************************************************)
IsSpace(c) == c \in {9, 10, 11, 12, 13, 32}

\* a string without its leading and trailing whitespace
Trim(s) ==
    LET kept == {n \in 1..Len(s) : ~IsSpace(s[n])}
    IN  IF kept = {} THEN <<>>
        ELSE SubSeq(s, CHOOSE n \in kept : \A m \in kept : n <= m,
                       CHOOSE n \in kept : \A m \in kept : n >= m)

\* the canonical form of a label: uppercase, trimmed
Canonical(s) == Trim(Upper(s))

\* LOW < MEDIUM < HIGH
Ordinals == {s_low, s_medium, s_high}
OrdinalRank(c) ==
    CASE c = s_low -> 1 [] c = s_medium -> 2 [] c = s_high -> 3 [] OTHER -> 0

\* the (label, confidence) pairs of a list of detections
AsSet(list) == {<<list[n].object, list[n].confidence>> : n \in 1..Len(list)}

\* the results of the first k futures, in the order of their submission
RECURSIVE InSubmissionOrder(_)
InSubmissionOrder(k) ==
    IF k = 0 THEN <<>> ELSE InSubmissionOrder(k - 1) \o futures[k].result

AfterMerge == {"sort", "upload", "returned"}

(***************************************************************************)
(* C1.  In a run with string confidences drawn from low, medium and high,  *)
(* the merged entry of each label carries the highest category that any    *)
(* collected detection of that label carries, under LOW < MEDIUM < HIGH.   *)
(* `conf > ...` compares the two strings, and "high" < "low" < "medium".   *)
(***************************************************************************)
C1_MergedIsHighestCategory ==
    (/\ variant = "gemini"
     /\ pc \in AfterMerge
     /\ \A n \in 1..Len(all_detections) :
           all_detections[n].confidence \in Ordinals)
    => \A n \in 1..Len(unique_detections) :
          \A m \in 1..Len(all_detections) :
             all_detections[m].object = unique_detections[n].object
             => OrdinalRank(unique_detections[n].confidence)
                   >= OrdinalRank(all_detections[m].confidence)

(***************************************************************************)
(* C2.  In the numeric run, after every frame result the loop has          *)
(* consumed, each label of the merged map has the largest confidence a     *)
(* consumed frame result gave it, and every label a consumed frame result  *)
(* gave is in the map.                                                      *)
(***************************************************************************)
C2_MergedIsMaximum ==
    variant = "vision" =>
        /\ \A p \in seen :
              /\ HasKey(all_detections, p[1])
              /\ Lookup(all_detections, p[1]) >= p[2]
        /\ AsSet(all_detections) \subseteq seen
        /\ \A n, m \in 1..Len(all_detections) :
              all_detections[n].object = all_detections[m].object => n = m

\* the loop is over, and a label came with two confidences
C2_Witness ==
    /\ variant = "vision"
    /\ pc = "upload"
    /\ \E p, q \in seen : p[1] = q[1] /\ p[2] < q[2]

(***************************************************************************)
(* C3.  No two entries of the detections of an output record have the     *)
(* same canonical label (the label uppercased and trimmed).                *)
(***************************************************************************)
C3_NoTwoEntriesShareCanonicalLabel ==
    \A r \in 1..Len(sink) :
        \A n, m \in 1..Len(sink[r].detections) :
            Canonical(sink[r].detections[n].object)
                = Canonical(sink[r].detections[m].object)
            => n = m

(***************************************************************************)
(* C4.  The merge does not depend on the order in which the futures        *)
(* complete: whatever order as_completed yields them in, the labels and    *)
(* the confidence of each label are those of the merge of the same frame   *)
(* results taken in the order of submission.                               *)
(***************************************************************************)
C4_MergeOrderIndependent ==
    variant = "gemini" =>
        LET ref == AsSet(GeminiMerge(<<>>, InSubmissionOrder(Len(futures))))
        IN  /\ pc = "sort" => AsSet(unique_detections) = ref
            /\ pc = "upload" => AsSet(detected_list) = ref
            /\ pc = "returned" => AsSet(sink[Len(sink)].detections) = ref

\* the futures were collected out of their order of submission, and a label
\* came with two confidences
C4_Witness ==
    /\ variant = "gemini"
    /\ pc = "returned"
    /\ all_detections # InSubmissionOrder(Len(futures))
    /\ \E n, m \in 1..Len(all_detections) :
          /\ all_detections[n].object = all_detections[m].object
          /\ all_detections[n].confidence # all_detections[m].confidence

(***************************************************************************)
(* C5.  The final list is in descending order of confidence (by value in   *)
(* the numeric run, by category rank in the string run), and the sort      *)
(* makes it for every confidence the backend returns: it never fails the   *)
(* run.                                                                     *)
(***************************************************************************)
C5_SortedAndSortNeverFails ==
    /\ error # "ValueError"
    /\ pc \in {"upload", "returned"} =>
          \A n \in 1..(Len(detected_list) - 1) :
             IF variant = "vision"
             THEN detected_list[n].confidence >= detected_list[n + 1].confidence
             ELSE /\ detected_list[n].confidence \in Ordinals
                  /\ detected_list[n + 1].confidence \in Ordinals
                  /\ OrdinalRank(detected_list[n].confidence)
                        >= OrdinalRank(detected_list[n + 1].confidence)

(***************************************************************************)
(* C6.  When the backend call of analyze_frame fails with PermissionDenied *)
(* k times, k below the retry limit, analyze_frame is invoked again with   *)
(* the same frame: its calls outnumber the failures, so the result is that *)
(* of a call that succeeded.                                                *)
(***************************************************************************)
C6_RetryTransparent ==
    /\ (variant = "vision" /\ pc # "analyze" /\ cur.frame >= 0
            /\ cur.denied >= 1 /\ cur.denied < MaxAttempts)
       => cur.calls > cur.denied
    /\ \A f \in 1..Len(futures) :
          (futures[f].state = "done" /\ futures[f].denied >= 1
              /\ futures[f].denied < MaxAttempts)
          => futures[f].calls > futures[f].denied

(***************************************************************************)
(* C7.  The retry wrapper stops after a maximum number of attempts: it     *)
(* never invokes process_video more than MaxAttempts times.                *)
(***************************************************************************)
C7_AttemptsBounded == attempts <= MaxAttempts

(***************************************************************************)
(* C8.  The merge into unique_detections never begins while a submitted    *)
(* task is pending or running: at the merge and after it, every future is  *)
(* done and as_completed has yielded it.                                    *)
(***************************************************************************)
C8_FanInBarrier ==
    (variant = "gemini" /\ (pc \in {"merge"} \cup AfterMerge))
    => \A f \in 1..Len(futures) :
          futures[f].state = "done" /\ f \in collected

\* the merge is about to begin, in a run with more futures than workers
C8_Witness ==
    /\ variant = "gemini"
    /\ pc = "merge"
    /\ Len(futures) > max_workers

C10_EmptyVideo ==
    video = 0 =>
        /\ i = 0
        /\ calls = 0
        /\ cur = NoCall
        /\ futures = <<>>
        /\ pc = "upload" => detected_list = <<>>
        /\ pc = "returned" => sink = <<[detections |-> <<>>]>>
        /\ error \in {"none", "NotFound", "Exception", "RetryError"}

\* the record of a video without frames is written
C10_Witness ==
    /\ video = 0
    /\ frame_count = 0
    /\ pc = "returned"
    /\ sink = <<[detections |-> <<>>]>>

(***************************************************************************)
(* C11.  A failure of one frame is absorbed: when the answer for a frame   *)
(* cannot be parsed, or the backend call for it fails with an error that   *)
(* is not retried, analyze_frame returns an empty result and raises        *)
(* nothing, the other sampled frames are still analysed, and process_video *)
(* still writes its record: a run with a failed frame ends in no error but *)
(* a collaborator's (the download, the open, the upload).  That the merged *)
(* detections stay as they were is C11_MergedUnchanged.                     *)
(***************************************************************************)
FrameFailures == {"malformed", "error"}

\* a frame of this invocation failed (vision: the frame analysed last)
FrameFailed ==
    \/ variant = "vision" /\ pc # "analyze" /\ cur.kind \in FrameFailures
    \/ \E f \in 1..Len(futures) :
          futures[f].state = "done" /\ futures[f].kind \in FrameFailures

\* the failure is not raised, the result is empty, the other frames are
\* analysed
FrameFailureAbsorbed ==
    /\ error \notin FrameFailures
    /\ \A f \in 1..Len(futures) :
          (futures[f].state = "done" /\ futures[f].kind \in FrameFailures)
          => futures[f].result = <<>> /\ futures[f].raised = "none"
    /\ (variant = "vision" /\ pc # "analyze" /\ cur.kind \in FrameFailures)
       => pc \in {"frames", "upload", "returned", "backoff", "raised"}
    /\ (variant = "vision" /\ pc \in {"upload", "returned"})
       => ~InRange(i, frame_count)
    /\ (variant = "gemini" /\ (pc \in {"merge"} \cup AfterMerge))
       => \A f \in 1..Len(futures) :
             futures[f].state = "done" /\ futures[f].calls >= 1

C11_FrameFailureAbsorbed ==
    /\ FrameFailureAbsorbed
    /\ (FrameFailed /\ pc = "raised")
       => error \in {"NotFound", "Exception", "RetryError"}

\* the step that takes in the result of a failed frame leaves the merged
\* (vision) or collected (gemini) detections as they were
C11_MergedUnchanged ==
    [][(\/ /\ variant = "vision" /\ pc = "analyze" /\ pc' = "frames"
           /\ cur'.kind \in FrameFailures
        \/ /\ variant = "gemini" /\ pc = "collect"
           /\ \E f \in collected' \ collected :
                 futures[f].kind \in FrameFailures)
       => all_detections' = all_detections]_vars

(***************************************************************************)
(* C12.  matches_interest(label, interests) is true exactly when, for some *)
(* entry of the interest set, the label is a substring of the entry or the *)
(* entry a substring of the label, whatever the letter case of the label   *)
(* and of the entry; and a label is in the merged map of analyze_video     *)
(* exactly when that holds of it.                                           *)
(***************************************************************************)
\* the match of the claim: both sides compared without their case
MatchesWithoutCase(label, ints) ==
    \E entry \in ints :
        \/ Contains(Upper(entry), Upper(label))
        \/ Contains(Upper(label), Upper(entry))

\* the entity descriptions of the annotated video
AnnotatedNames ==
    {annotations.objects[n].name : n \in 1..Len(annotations.objects)}
        \cup {annotations.labels[n].name : n \in 1..Len(annotations.labels)}

C12_MatchesInterestWithoutCase ==
    (variant = "batch" /\ pc \in {"sortlist", "upload_batch", "returned"})
    => \A name \in AnnotatedNames :
          /\ MatchesInterest(name, interests)
                <=> MatchesWithoutCase(name, interests)
          /\ HasKey(detected_objects, Upper(name))
                <=> MatchesWithoutCase(name, interests)

\* what holds: a label is in the merged map exactly when matches_interest
\* is true of it, and with the interest set {"CAR"} "red car" is kept and
\* "bicycle" is dropped
C12_OnlyMatchesEnter ==
    (variant = "batch" /\ pc \in {"sortlist", "upload_batch", "returned"})
    => /\ \A name \in AnnotatedNames :
             HasKey(detected_objects, Upper(name))
                <=> MatchesInterest(name, interests)
       /\ interests = {s_CAR} =>
             /\ s_red_car \in AnnotatedNames
                   => HasKey(detected_objects, Upper(s_red_car))
             /\ ~HasKey(detected_objects, Upper(s_bicycle))

=============================================================================
